---- MODULE Spec2Model ----
(***************************************************************************)
(* Model of the RWKV completion engine of src/src/rwkv_models.js (the      *)
(* promise-queue based class RWKV, lines 794-1558): the prompt-state       *)
(* cache, the two-level work queue and the token generation loop.          *)
(*                                                                         *)
(* Text is a sequence of characters over {"a","b"}.  The tokenizer has     *)
(* three tokens, 1 = "a", 2 = "b" and the merge 3 = "ab".  The evaluator   *)
(* is opaque: a hidden-state value is the sequence of tokens consumed      *)
(* since the zero state, and a logits value is the hidden state it was     *)
(* computed with, so two buffers are equal exactly when they were reached  *)
(* through the same token sequence.                                        *)
(***************************************************************************)
EXTENDS Integers, Sequences, FiniteSets, TLC

-----------------------------------------------------------------------------
(* Bounds of the model *)

\* requests submitted in one behaviour of the scheduling specification
MaxSchedRequests == 3
\* requests submitted in one behaviour of the cache specification
MaxCacheRequests == 2
\* requests submitted in one behaviour of the generation specification
MaxGenRequests == 1
\* requests submitted in one behaviour of the prefix specification
MaxPrefixRequests == 3
\* requests submitted in one behaviour of the lifecycle specification
MaxLifeRequests == 2
\* calls of free() in one behaviour of the lifecycle specification
MaxFreeCalls == 2
\* largest config.concurrent
MaxConcurrent == 2
\* largest max_tokens a request of the generation specification asks for
MaxTokens == 2
\* requests submitted in one behaviour of the ring specification
MaxRingRequests == 2
\* max_tokens of the generating requests of the ring specification
MaxRingTokens == 6
\* requests submitted in one behaviour of the sampling specification
MaxSampleRequests == 1
\* max_tokens of the requests of the streaming specification
MaxStreamTokens == 4
\* requests submitted in one behaviour of the funnel specification
MaxFunnelRequests == 4
\* requests submitted in one behaviour of the dispatch specification
MaxDispatchRequests == 3
\* config.concurrent of the dispatch specification
MaxDispatchWorkers == 3

(* Program constants *)

\* const BUFFER_SIZE = 5 : depth of the circular state buffer
BUFFER_SIZE == 5
\* a worker queue that lets two tasks run at a time
WorkerMaxPending_Two == 1 + 1
\* new promise_queue(1) : tasks one worker queue runs at a time
WorkerMaxPending == 1
\* a shared queue that admits three tasks per worker
SharedFactor_Three == 2 + 1
\* new promise_queue(concurrent * 2)
SharedFactor == 2
\* let maxTokens = opt.max_tokens || 64
DefaultMaxTokens == 64

-----------------------------------------------------------------------------
(* Values *)

Chars == {"a", "b"}
Vocab == {1, 2, 3}
\* what `curTokenObj.token` reads when sampleLogits returned a bare number
UndefTok == 0
None == "none"
\* contents of a freshly allocated Float32Array used as logits
ZeroLogits == <<-1>>
ZeroState == <<>>

Min(a, b) == IF a < b THEN a ELSE b
Max(a, b) == IF a > b THEN a ELSE b

-----------------------------------------------------------------------------
(* JavaScript string and array primitives, 0-based as in the source *)

\* s.slice(a, b) for 0 <= a
Slice(s, a, b) == SubSeq(s, Min(a, Len(s)) + 1, Min(b, Len(s)))
\* s.slice(a)
SliceFrom(s, a) == Slice(s, a, Len(s))
\* s.slice(-k) ; slice(-0) is slice(0), the whole string
SliceLast(s, k) == IF k = 0 \/ k >= Len(s) THEN s ELSE SliceFrom(s, Len(s) - k)
\* s.startsWith(p)
StartsWith(s, p) == Len(p) <= Len(s) /\ SubSeq(s, 1, Len(p)) = p
\* p occurs in s at 0-based position k
OccursAt(s, p, k) == k >= 0 /\ k + Len(p) <= Len(s) /\ SubSeq(s, k + 1, k + Len(p)) = p
Occurrences(s, p) == {k \in 0..Len(s) : OccursAt(s, p, k)}
SetMin(S) == CHOOSE x \in S : \A y \in S : x <= y
SetMax(S) == CHOOSE x \in S : \A y \in S : x >= y
\* s.indexOf(p)
IndexOf(s, p) == IF Occurrences(s, p) = {} THEN -1 ELSE SetMin(Occurrences(s, p))
\* s.lastIndexOf(p)
LastIndexOf(s, p) == IF Occurrences(s, p) = {} THEN -1 ELSE SetMax(Occurrences(s, p))
\* s.substring(0, e) ; a negative e counts as 0
Substring0(s, e) == Slice(s, 0, Max(e, 0))

-----------------------------------------------------------------------------
(* Tokenizer (rwkv-tokenizer-node): byte-pair encoding with the one merge  *)
(* "a" "b" -> "ab"                                                         *)

TokStr(t) == CASE t = 1 -> <<"a">>
               [] t = 2 -> <<"b">>
               [] t = 3 -> <<"a", "b">>
               [] OTHER -> <<>>

RECURSIVE Encode(_)
Encode(s) ==
    IF s = <<>> THEN <<>>
    ELSE IF Len(s) >= 2 /\ s[1] = "a" /\ s[2] = "b"
         THEN <<3>> \o Encode(SubSeq(s, 3, Len(s)))
         ELSE <<(IF s[1] = "a" THEN 1 ELSE 2)>> \o Encode(Tail(s))

RECURSIVE Decode(_)
Decode(toks) == IF toks = <<>> THEN <<>> ELSE TokStr(Head(toks)) \o Decode(Tail(toks))

-----------------------------------------------------------------------------
(* Evaluator (rwkv.cpp through cpp_bind): opaque, deterministic            *)

\* rwkv_eval: the state after consuming one more token
EvalState(state, tok) == Append(state, tok)
\* rwkv_eval_sequence: the state after consuming a chunk
EvalSeqState(state, chunk) == state \o chunk
\* the logits the evaluator writes together with a state
LogitsOf(state) == state

\* softmax(logits / temp) in tenths; the model's scores only depend on how
\* many tokens were consumed
Prob(logits, t) ==
    IF logits = ZeroLogits THEN (IF t = 1 THEN 4 ELSE 3)
    ELSE LET k == (Len(logits) + t) % 3
         IN  CASE k = 0 -> 5 [] k = 1 -> 3 [] OTHER -> 2

\* logits.indexOf(getMaxFloat(logits)) : first index holding the maximum
ArgMax(logits) ==
    CHOOSE t \in Vocab :
        /\ \A u \in Vocab : Prob(logits, u) <= Prob(logits, t)
        /\ \A u \in Vocab : Prob(logits, u) = Prob(logits, t) => t <= u

-----------------------------------------------------------------------------
(* Sampler: ai_utils.sampleLogits.  temp is 1 for 1.0 and top_p is in       *)
(* tenths; an option given as 0 is the number 0                            *)

RECURSIVE SumProb(_, _)
SumProb(logits, S) ==
    IF S = {} THEN 0
    ELSE LET t == CHOOSE x \in S : TRUE
         IN  Prob(logits, t) + SumProb(logits, S \ {t})

\* tokens that probPairs.sort((a, b) => b[1] - a[1]) places before t
\* (the sort is stable, equal probabilities keep index order)
SortedBefore(logits, t) ==
    {u \in Vocab : \/ Prob(logits, u) > Prob(logits, t)
                   \/ (Prob(logits, u) = Prob(logits, t) /\ u < t)}

\* a top_p filter that keeps every pair
TopPKept_All(logits, top_p) == Vocab
\* the pairs the top_p filter keeps: the loop breaks at the first pair where
\* the running sum reaches top_p, and keeps everything when top_p >= 1.0
TopPKept(logits, top_p) ==
    IF top_p < 10
    THEN {t \in Vocab : SumProb(logits, SortedBefore(logits, t)) < top_p
                        \/ SortedBefore(logits, t) = {}}
    ELSE Vocab

\* every value sampleLogits can return or throw
SampleLogits(logits, temp, top_p) ==
    IF temp <= 0
    THEN {[kind |-> "number", token |-> ArgMax(logits)]}
    ELSE IF top_p < 0
    THEN {[kind |-> "throw", token |-> UndefTok]}
    ELSE {[kind |-> "object", token |-> t] :
             t \in {u \in TopPKept(logits, top_p) :
                       Prob(logits, u) > 0 \/ SortedBefore(logits, u) = {}}}

\* curTokenObj.token : a bare number has no token property
TokenOf(sample) == IF sample.kind = "object" THEN sample.token ELSE UndefTok

-----------------------------------------------------------------------------
(* lru-cache: a sequence of entries, most recently used first              *)

LruKeys(cache) == [i \in 1..Len(cache) |-> cache[i].prompt]
LruHas(cache, key) == \E i \in 1..Len(cache) : cache[i].prompt = key
LruPeek(cache, key) == cache[CHOOSE i \in 1..Len(cache) : cache[i].prompt = key]
RECURSIVE LruWithout(_, _)
LruWithout(cache, key) ==
    IF cache = <<>> THEN <<>>
    ELSE IF Head(cache).prompt = key THEN LruWithout(Tail(cache), key)
    ELSE <<Head(cache)>> \o LruWithout(Tail(cache), key)
\* a get(key) that drops the entry it reads
LruGet_Drop(cache, key) == LruWithout(cache, key)
\* cache.get(key) moves the entry to the most recently used position
LruGet(cache, key) == <<LruPeek(cache, key)>> \o LruWithout(cache, key)
\* cache.set(key, entry) inserts or replaces, then drops the least recently
\* used entries beyond max
LruSet(cache, entry, max) ==
    SubSeq(<<entry>> \o LruWithout(cache, entry.prompt), 1,
           Min(max, Len(LruWithout(cache, entry.prompt)) + 1))

\* keys.sort((a, b) => b.length - a.length) : stable, longest first
RECURSIVE InsertByLen(_, _)
InsertByLen(key, sorted) ==
    IF sorted = <<>> THEN <<key>>
    ELSE IF Len(Head(sorted)) <= Len(key) THEN <<key>> \o sorted
    ELSE <<Head(sorted)>> \o InsertByLen(key, Tail(sorted))
\* keys left in the order keys() yields them, most recently used first
SortLongestFirst_Unsorted(keys) == keys
RECURSIVE SortLongestFirst(_)
SortLongestFirst(keys) ==
    IF keys = <<>> THEN <<>>
    ELSE InsertByLen(Head(keys), SortLongestFirst(Tail(keys)))

\* the inner loop of the token check: its `continue` continues the inner
\* for-loop over the tokens, so no candidate is ever skipped
TokenCheckRejects(inputTokens, candidateTokens) == FALSE

\* a lookup loop that passes over the key equal to the input
FirstCandidate_ProperOnly(cache, keys, input, inputTokens) ==
    LET ks == SelectSeq(keys, LAMBDA k : /\ StartsWith(input, k)
                                         /\ k # input
                                         /\ LruHas(cache, k))
    IN  IF ks = <<>> THEN <<>> ELSE <<Head(ks)>>
\* a lookup loop that finds no candidate
FirstCandidate_None(cache, keys, input, inputTokens) == <<>>
\* the candidate key the lookup loop breaks on: <<key>>, or <<>> when the
\* loop ends without one
RECURSIVE FirstCandidate(_, _, _, _)
FirstCandidate(cache, keys, input, inputTokens) ==
    IF keys = <<>> THEN <<>>
    ELSE IF /\ StartsWith(input, Head(keys))
            /\ LruHas(cache, Head(keys))
            /\ ~TokenCheckRejects(inputTokens, LruPeek(cache, Head(keys)).tokens)
         THEN <<Head(keys)>>
         ELSE FirstCandidate(cache, Tail(keys), input, inputTokens)

-----------------------------------------------------------------------------
(* promise-queue: pendingPromises, queue and maxPendingPromises            *)

NewQueue(max) == [pending |-> 0, queue |-> <<>>, max |-> max]
\* getPendingLength() + getQueueLength()
QueueLoad(q) == q.pending + Len(q.queue)
\* a _dequeue() that starts the head item whether or not a slot is free
CanDequeue_NoLimit(q) == q.queue # <<>>
\* _dequeue() starts the head item when a slot is free
CanDequeue(q) == q.pending < q.max /\ q.queue # <<>>

-----------------------------------------------------------------------------
(* State *)

VARIABLES
    mode,             \* which family of inputs this behaviour draws from
    config,           \* this._config
    mainCtx,          \* this._mainCtx : "unset", "set"
    workCtxArray,     \* this._workCtxArray : the handles, <<>> before setup
    stateCache,       \* this._stateCache : the LRU entries, most recent first
    cacheProps,       \* plain properties assigned on the _stateCache object
    heap,             \* the state/logits buffer pair allocated by each request
    sharedWorkQueue,  \* this._sharedWorkQueue
    workQueueArr,     \* this._workQueueArr
    life,             \* where setup() and free() stand, and the handles freed
    req               \* the completion() calls

vars == <<mode, config, mainCtx, workCtxArray, stateCache, cacheProps, heap,
          sharedWorkQueue, workQueueArr, life, req>>

RidBound == Max(Max(Max(MaxSchedRequests, MaxPrefixRequests),
                   Max(Max(MaxRingRequests, MaxSampleRequests),
                       Max(MaxDispatchRequests, MaxFunnelRequests))),
               Max(MaxCacheRequests, Max(MaxGenRequests, MaxLifeRequests)))
Rids == 1..RidBound
\* how many completion() calls one behaviour makes
ReqLimit == CASE mode = "sched" -> MaxSchedRequests
              [] mode = "cache" -> MaxCacheRequests
              [] mode = "prefix" -> MaxPrefixRequests
              [] mode \in {"life", "race"} -> MaxLifeRequests
              [] mode = "ring" -> MaxRingRequests
              [] mode = "dispatch" -> MaxDispatchRequests
              [] mode = "funnel" -> MaxFunnelRequests
              [] mode = "mix" -> MaxSchedRequests
              [] mode = "batch" -> MaxCacheRequests
              [] mode = "sample" -> MaxSampleRequests
              [] mode = "stream" -> MaxSampleRequests
              [] OTHER -> MaxGenRequests

Workers == 1..config.concurrent

\* if (config.stateCacheSize === false || config.stateCacheSize <= 0)
\*     this._stateCache = null
StateCacheIsNull == config.stateCacheSize <= 0
\* max: config.stateCacheSize || 50
CacheMax == config.stateCacheSize
\* this._config.batchSize || 1
\* chunks one token longer than the configured batch size
BatchSize_PlusOne == (IF config.batchSize = 0 THEN 1 ELSE config.batchSize) + 1
\* let batchSize = this._config.batchSize || 1
BatchSize == IF config.batchSize = 0 THEN 1 ELSE config.batchSize

NoStop == [kind |-> "none", list |-> <<>>]
NoMatch == [set |-> FALSE, str |-> <<>>]
NoPss == [buf |-> 0, prompt |-> <<>>, tokens |-> <<>>, cachedTokenSize |-> 0,
          meta |-> FALSE]
NoResult == [completion |-> <<>>, promptTokens |-> 0, completionTokens |-> 0,
             totalTokens |-> 0, promptTokensCached |-> 0]
NoOpt == [prompt |-> <<>>, max_tokens |-> 0, temperature |-> 0, top_p |-> 0,
          stop |-> NoStop, stream |-> FALSE, hasInitState |-> FALSE,
          initState |-> <<>>]
EmptySlot == [state |-> ZeroState, logits |-> ZeroLogits, outputStr |-> <<>>,
              outputTokens |-> <<>>]
EmptyRing == [k \in 0..(BUFFER_SIZE - 1) |-> EmptySlot]

\* setup() and free() not called yet, no handle released
NewLife == [setup |-> "idle", free |-> "idle", freeIdx |-> 0, freeCalls |-> 0,
            freeLog |-> <<>>]

NewReq == [pc |-> "new", opt |-> NoOpt, worker |-> 0, thrown |-> None,
           evals |-> 0, genEvals |-> 0,
           remTokens |-> <<>>, fullTokenArr |-> <<>>, cachedTokenSize |-> 0,
           promptStartState |-> NoPss,
           stopArr |-> <<>>, stopSeqMaxLen |-> 0,
           outputStr |-> <<>>, outputTokens |-> <<>>,
           stateBuffer |-> EmptyRing, curBufferIndex |-> 0, nxtBufferIndex |-> 0,
           i |-> 0, curToken |-> UndefTok,
           stopSeqMatched |-> NoMatch,
           streamPos |-> 0, streamed |-> <<>>, streamCalls |-> 0,
           allArgMax |-> TRUE, evalFailed |-> FALSE, waitedShared |-> FALSE,
           outcome |-> None, result |-> NoResult]

\* the part of the state the handlers below transform
Cur == [req |-> req, stateCache |-> stateCache, cacheProps |-> cacheProps,
        heap |-> heap, sharedWorkQueue |-> sharedWorkQueue,
        workQueueArr |-> workQueueArr]

Commit(s) ==
    /\ req' = s.req
    /\ stateCache' = s.stateCache
    /\ cacheProps' = s.cacheProps
    /\ heap' = s.heap
    /\ sharedWorkQueue' = s.sharedWorkQueue
    /\ workQueueArr' = s.workQueueArr

-----------------------------------------------------------------------------
(* The task of one completion() call: the async function handed to         *)
(* _assignFunctionToWorker, cut at its awaits                              *)

\* a task that stores what it has of its prompt in the cache when it throws
TaskEnd_CachingOnThrow(s, r, outcome, result) ==
    [s EXCEPT !.req[r] = [@ EXCEPT !.pc = "taskEnded",
                                   !.outcome = outcome,
                                   !.result = result,
                                   !.remTokens = <<>>,
                                   !.stateBuffer = EmptyRing],
              !.stateCache =
                  IF outcome = "rejected" /\ ~StateCacheIsNull
                  THEN LruSet(@, [prompt |-> s.req[r].opt.prompt,
                                  tokens |-> s.req[r].fullTokenArr,
                                  buf |-> r], CacheMax)
                  ELSE @]
\* the async function returns or throws: its promise settles
TaskEnd(s, r, outcome, result) ==
    [s EXCEPT !.req[r] = [@ EXCEPT !.pc = "taskEnded",
                                   !.outcome = outcome,
                                   !.result = result,
                                   !.remTokens = <<>>,
                                   !.stateBuffer = EmptyRing]]

\* stateBuffer[k].state and .logits ; stateBuffer[0] is promptStartState,
\* whose buffers are the pair promptStartState.buf of the heap
SlotState(s, r, k) ==
    IF k = 0 THEN s.heap[s.req[r].promptStartState.buf].state
    ELSE s.req[r].stateBuffer[k].state
SlotLogits(s, r, k) ==
    IF k = 0 THEN s.heap[s.req[r].promptStartState.buf].logits
    ELSE s.req[r].stateBuffer[k].logits

\* a completion without the special handling of max_tokens = 0
IsPreload_Never(opt) == FALSE
\* if (opt.max_tokens === 0) return formatOutputObject()
IsPreload(opt) == opt.max_tokens = 0
\* let maxTokens = opt.max_tokens || 64
MaxTokensOf(opt) == IF opt.max_tokens = 0 THEN DefaultMaxTokens ELSE opt.max_tokens
\* let temperature = opt.temperature || 1.0
TemperatureOf(opt) == IF opt.temperature = 0 THEN 1 ELSE opt.temperature
\* let top_p = opt.top_p || 1.0
TopPOf(opt) == IF opt.top_p = 0 THEN 10 ELSE opt.top_p

\* if (stopSeqMatched) : null and "" are falsy
Truthy(m) == m.set /\ m.str # <<>>

\* the completion text of formatOutputObject
FinalOutputStr(q) ==
    IF Truthy(q.stopSeqMatched)
    THEN Substring0(q.outputStr, LastIndexOf(q.outputStr, q.stopSeqMatched.str))
    ELSE q.outputStr

\* a stream that delivers the output from its start each time
StreamUpTo_Resend(q, streamLimit) ==
    IF q.opt.stream /\ streamLimit > 0 /\ streamLimit > q.streamPos
    THEN [q EXCEPT !.streamed = @ \o Slice(q.outputStr, 0, streamLimit),
                   !.streamPos = streamLimit,
                   !.streamCalls = @ + 1]
    ELSE q
\* outputStream(outputStr.slice(streamPos, streamLimit)) when there is
\* something new below streamLimit
StreamUpTo(q, streamLimit) ==
    IF q.opt.stream /\ streamLimit > 0 /\ streamLimit > q.streamPos
    THEN [q EXCEPT !.streamed = @ \o Slice(q.outputStr, q.streamPos, streamLimit),
                   !.streamPos = streamLimit,
                   !.streamCalls = @ + 1]
    ELSE q

\* formatOutputObject(), then the return of the task.  A promptStartState
\* that came from _getHiddenState_fromExistingState_andTokenArr has no tokens
\* property, and reading tokens.length throws
FormatOutputObject(s, r) ==
    LET q == StreamUpTo(s.req[r], Len(FinalOutputStr(s.req[r])))
        pss == q.promptStartState
        s1 == [s EXCEPT !.req[r] = q]
    IN  IF ~pss.meta
        THEN TaskEnd(s1, r, "rejected", NoResult)
        ELSE TaskEnd(s1, r, "resolved",
                     [completion |-> FinalOutputStr(q),
                      promptTokens |-> Len(pss.tokens),
                      completionTokens |-> Len(q.outputTokens),
                      totalTokens |-> Len(pss.tokens) + Len(q.outputTokens),
                      promptTokensCached |-> pss.cachedTokenSize])

\* after the loop: self._stateCache[cacheStr] = {...} assigns a property of
\* the cache object, then formatOutputObject()
Finalize(s, r) ==
    LET q == s.req[r]
        k == q.curBufferIndex
        pss == q.promptStartState
        cacheStr == pss.prompt \o q.stateBuffer[k].outputStr
        entry == [prompt |-> cacheStr,
                  tokens |-> pss.tokens \o q.stateBuffer[k].outputTokens,
                  state |-> SlotState(s, r, k),
                  logits |-> SlotLogits(s, r, k),
                  buf |-> IF k = 0 THEN pss.buf ELSE 0]
        s1 == IF StateCacheIsNull \/ q.opt.hasInitState
              THEN s
              ELSE [s EXCEPT !.cacheProps =
                        {e \in @ : e.prompt # cacheStr} \cup {entry}]
    IN  FormatOutputObject(s1, r)

\* a loop that runs while i <= maxTokens
LoopHead_OneMore(s, r) ==
    IF s.req[r].i <= MaxTokensOf(s.req[r].opt)
    THEN [s EXCEPT !.req[r].pc = "evalGen",
                   !.req[r].evals = @ + 1,
                   !.req[r].genEvals = @ + 1]
    ELSE Finalize(s, r)
\* for (let i = 1; i < maxTokens; i++) : the next rwkv_eval call, or the end
LoopHead(s, r) ==
    IF s.req[r].i < MaxTokensOf(s.req[r].opt)
    THEN [s EXCEPT !.req[r].pc = "evalGen",
                   !.req[r].evals = @ + 1,
                   !.req[r].genEvals = @ + 1]
    ELSE Finalize(s, r)

\* tokenizer.decode([token]) ; what the tokenizer does with an undefined
\* token is not known: it throws or yields no text
DecodeOutcomes(tok) ==
    IF tok = UndefTok
    THEN {[ok |-> FALSE, str |-> <<>>], [ok |-> TRUE, str |-> <<>>]}
    ELSE {[ok |-> TRUE, str |-> TokStr(tok)]}

RECURSIVE MaxLenOf(_)
MaxLenOf(stopArr) ==
    IF stopArr = <<>> THEN 0 ELSE Max(Len(Head(stopArr)), MaxLenOf(Tail(stopArr)))

\* for (const stopSeq of stopArr) if (lastXStr.indexOf(stopSeq) >= 0) ...
RECURSIVE FirstStop(_, _)
FirstStop(stopArr, lastXStr) ==
    IF stopArr = <<>> THEN NoMatch
    ELSE IF IndexOf(lastXStr, Head(stopArr)) >= 0
         THEN [set |-> TRUE, str |-> Head(stopArr)]
         ELSE FirstStop(Tail(stopArr), lastXStr)

\* completion() from the return of the prompt resolution to the first
\* rwkv_eval of the loop: stop list, max_tokens === 0, ring, first token
AfterPrompt(s, r, sample, dec) ==
    LET q == s.req[r]
        tok == TokenOf(sample)
        q1 == [q EXCEPT !.stopArr = q.opt.stop.list,
                        !.stopSeqMaxLen = MaxLenOf(q.opt.stop.list)]
        q2 == [q1 EXCEPT !.stateBuffer[0].outputStr = q1.outputStr,
                         !.stateBuffer[0].outputTokens = q1.outputTokens,
                         !.outputTokens = Append(@, tok),
                         !.outputStr = @ \o dec.str,
                         !.curToken = tok,
                         !.allArgMax = (tok = ArgMax(SlotLogits(s, r, 0))),
                         !.curBufferIndex = 0,
                         !.nxtBufferIndex = 1,
                         !.i = 1]
    IN  IF q.opt.stop.kind = "number"
        THEN TaskEnd(s, r, "rejected", NoResult)
        ELSE IF IsPreload(q.opt)
        THEN FormatOutputObject([s EXCEPT !.req[r] = q1], r)
        ELSE IF sample.kind = "throw" \/ ~dec.ok
        THEN TaskEnd([s EXCEPT !.req[r] = q1], r, "rejected", NoResult)
        ELSE LoopHead([s EXCEPT !.req[r] = q2], r)

\* a loop whose next index stays on the last slot instead of wrapping to 0
AfterEval_NoWrap(s, r, ok, sample, dec) ==
    LET q == s.req[r]
        cur == q.curBufferIndex
        nxt == q.nxtBufferIndex
        newState == EvalState(SlotState(s, r, cur), q.curToken)
        s1 == IF nxt = 0
              THEN [s EXCEPT !.heap[q.promptStartState.buf] =
                        [state |-> newState, logits |-> LogitsOf(newState)]]
              ELSE [s EXCEPT !.req[r].stateBuffer[nxt].state = newState,
                             !.req[r].stateBuffer[nxt].logits = LogitsOf(newState)]
        tok == TokenOf(sample)
        q1 == s1.req[r]
        q2 == [q1 EXCEPT !.stateBuffer[nxt].outputStr = q1.outputStr,
                         !.stateBuffer[nxt].outputTokens = q1.outputTokens,
                         !.outputTokens = Append(@, tok),
                         !.outputStr = @ \o dec.str,
                         !.curToken = tok,
                         !.allArgMax = (@ /\ tok = ArgMax(LogitsOf(newState))),
                         !.curBufferIndex = nxt,
                         !.nxtBufferIndex =
                             IF nxt + 1 >= BUFFER_SIZE THEN nxt ELSE nxt + 1]
        found == IF Len(q2.stopArr) > 0
                 THEN FirstStop(q2.stopArr,
                                SliceLast(q2.outputStr, q2.stopSeqMaxLen * 2))
                 ELSE NoMatch
        q3 == IF found.set THEN [q2 EXCEPT !.stopSeqMatched = found] ELSE q2
        q4 == [StreamUpTo(q3, Len(q3.outputStr) - q3.stopSeqMaxLen * 2)
                  EXCEPT !.i = @ + 1]
    IN  IF ~ok
        THEN TaskEnd([s EXCEPT !.req[r].evalFailed = TRUE], r, "rejected", NoResult)
        ELSE IF sample.kind = "throw" \/ ~dec.ok
        THEN TaskEnd(s1, r, "rejected", NoResult)
        ELSE IF Truthy(q3.stopSeqMatched)
        THEN Finalize([s1 EXCEPT !.req[r] = q3], r)
        ELSE LoopHead([s1 EXCEPT !.req[r] = q4], r)
\* one iteration of the loop from the return of rwkv_eval to the next
\* rwkv_eval (or to the end of the task)
AfterEval(s, r, ok, sample, dec) ==
    LET q == s.req[r]
        cur == q.curBufferIndex
        nxt == q.nxtBufferIndex
        newState == EvalState(SlotState(s, r, cur), q.curToken)
        s1 == IF nxt = 0
              THEN [s EXCEPT !.heap[q.promptStartState.buf] =
                        [state |-> newState, logits |-> LogitsOf(newState)]]
              ELSE [s EXCEPT !.req[r].stateBuffer[nxt].state = newState,
                             !.req[r].stateBuffer[nxt].logits = LogitsOf(newState)]
        tok == TokenOf(sample)
        q1 == s1.req[r]
        q2 == [q1 EXCEPT !.stateBuffer[nxt].outputStr = q1.outputStr,
                         !.stateBuffer[nxt].outputTokens = q1.outputTokens,
                         !.outputTokens = Append(@, tok),
                         !.outputStr = @ \o dec.str,
                         !.curToken = tok,
                         !.allArgMax = (@ /\ tok = ArgMax(LogitsOf(newState))),
                         !.curBufferIndex = nxt,
                         !.nxtBufferIndex =
                             IF nxt + 1 >= BUFFER_SIZE THEN 0 ELSE nxt + 1]
        found == IF Len(q2.stopArr) > 0
                 THEN FirstStop(q2.stopArr,
                                SliceLast(q2.outputStr, q2.stopSeqMaxLen * 2))
                 ELSE NoMatch
        q3 == IF found.set THEN [q2 EXCEPT !.stopSeqMatched = found] ELSE q2
        q4 == [StreamUpTo(q3, Len(q3.outputStr) - q3.stopSeqMaxLen * 2)
                  EXCEPT !.i = @ + 1]
    IN  IF ~ok
        THEN TaskEnd([s EXCEPT !.req[r].evalFailed = TRUE], r, "rejected", NoResult)
        ELSE IF sample.kind = "throw" \/ ~dec.ok
        THEN TaskEnd(s1, r, "rejected", NoResult)
        ELSE IF Truthy(q3.stopSeqMatched)
        THEN Finalize([s1 EXCEPT !.req[r] = q3], r)
        ELSE LoopHead([s1 EXCEPT !.req[r] = q4], r)

-----------------------------------------------------------------------------
(* Prompt resolution *)

\* _getHiddenState_fromExistingState_andTokenArr up to its first
\* rwkv_eval_sequence: a new outputState holding a copy of inState, a new
\* logits buffer, and the first chunk in flight
BeginEval(s, r, inState, tokenArr, fullTokenArr, cachedTokenSize) ==
    IF tokenArr = <<>> \/ workCtxArray = <<>>
    THEN TaskEnd(s, r, "rejected", NoResult)
    ELSE [s EXCEPT !.heap[r] = [state |-> inState, logits |-> ZeroLogits],
                   !.req[r].pc = "evalPrompt",
                   !.req[r].remTokens = tokenArr,
                   !.req[r].fullTokenArr = fullTokenArr,
                   !.req[r].cachedTokenSize = cachedTokenSize,
                   !.req[r].evals = @ + 1]

\* _getHiddenState_fromFullInputString up to its first await: the cache
\* lookup, then the exact hit or the evaluation of the remaining input
ResolveFromCache(s, r) ==
    LET input == s.req[r].opt.prompt
        inputTokens == Encode(input)
        found == IF StateCacheIsNull THEN <<>>
                 ELSE FirstCandidate(s.stateCache,
                                     SortLongestFirst(LruKeys(s.stateCache)),
                                     input, inputTokens)
        hit == found # <<>>
        cachedState == LruPeek(s.stateCache, found[1])
        s1 == IF hit THEN [s EXCEPT !.stateCache = LruGet(@, found[1])] ELSE s
        remainingInput == IF hit THEN SliceFrom(input, Len(cachedState.prompt))
                          ELSE input
        remainingTokens == Encode(remainingInput)
    IN  IF input = <<>>
        THEN TaskEnd(s, r, "rejected", NoResult)
        ELSE IF remainingInput = <<>>
        THEN [s1 EXCEPT !.req[r].pc = "promptAwait",
                        !.req[r].promptStartState =
                            [buf |-> cachedState.buf,
                             prompt |-> input,
                             tokens |-> cachedState.tokens,
                             cachedTokenSize |-> Len(cachedState.tokens),
                             meta |-> TRUE]]
        ELSE BeginEval(s1, r,
                       IF hit THEN s.heap[cachedState.buf].state ELSE ZeroState,
                       remainingTokens,
                       (IF hit THEN cachedState.tokens ELSE <<>>) \o remainingTokens,
                       IF hit THEN Len(cachedState.tokens) ELSE 0)

\* the task starts: func(self._workCtxArray[idx], idx) runs to its first await
TaskStart(s, r, w) ==
    LET s0 == [s EXCEPT !.req[r].worker = w]
    IN  IF workCtxArray = <<>>
        THEN TaskEnd(s0, r, "rejected", NoResult)
        ELSE IF s.req[r].opt.hasInitState
        THEN BeginEval(s0, r, s.req[r].opt.initState,
                       Encode(s.req[r].opt.prompt), <<>>, 0)
        ELSE ResolveFromCache(s0, r)

\* a rwkv_eval_sequence call of the prompt returns: the next chunk, or the
\* end of the resolution with the write into the cache
AfterPromptEval(s, r, ok) ==
    LET q == s.req[r]
        chunk == Slice(q.remTokens, 0, BatchSize)
        rest == SliceFrom(q.remTokens, BatchSize)
        newState == EvalSeqState(s.heap[r].state, chunk)
        s1 == [s EXCEPT !.heap[r] = [state |-> newState,
                                     logits |-> LogitsOf(newState)],
                        !.req[r].remTokens = rest]
    IN  IF ~ok
        THEN TaskEnd([s EXCEPT !.req[r].evalFailed = TRUE], r, "rejected", NoResult)
        ELSE IF rest # <<>>
        THEN [s1 EXCEPT !.req[r].evals = @ + 1]
        ELSE IF q.opt.hasInitState
        THEN [s1 EXCEPT !.req[r].pc = "promptAwait",
                        !.req[r].promptStartState = [NoPss EXCEPT !.buf = r]]
        ELSE IF StateCacheIsNull
        THEN TaskEnd(s1, r, "rejected", NoResult)
        ELSE [s1 EXCEPT !.stateCache =
                            LruSet(@, [prompt |-> q.opt.prompt,
                                       tokens |-> q.fullTokenArr,
                                       buf |-> r], CacheMax),
                        !.req[r].pc = "promptAwait",
                        !.req[r].promptStartState =
                            [buf |-> r,
                             prompt |-> q.opt.prompt,
                             tokens |-> q.fullTokenArr,
                             cachedTokenSize |-> q.cachedTokenSize,
                             meta |-> TRUE]]

-----------------------------------------------------------------------------
(* The two-level queue of _assignFunctionToWorker *)

\* the scan for the worker to assign to: every candidate is compared with
\* shortestQueueLength, which the loop never updates
RECURSIVE ScanShortest(_, _, _, _)
ScanShortest(wq, i, shortestQueueIdx, shortestQueueLength) ==
    IF i > Len(wq) THEN shortestQueueIdx
    ELSE IF QueueLoad(wq[i]) < shortestQueueLength
         THEN ScanShortest(wq, i + 1, i, shortestQueueLength)
         ELSE ScanShortest(wq, i + 1, shortestQueueIdx, shortestQueueLength)
\* an assignment that always takes the last worker
ShortestQueueIdx_Last(wq) == Len(wq)
ShortestQueueIdx(wq) == ScanShortest(wq, 2, 1, QueueLoad(wq[1]))

\* a _dequeue() that starts nothing
WorkerDequeue_Nothing(s, w) == s
\* _dequeue() of worker queue w: start its head task when its slot is free
WorkerDequeue(s, w) ==
    LET q == s.workQueueArr[w]
    IN  IF CanDequeue(q)
        THEN TaskStart([s EXCEPT !.workQueueArr[w] =
                            [q EXCEPT !.pending = @ + 1, !.queue = Tail(@)]],
                       Head(q.queue), w)
        ELSE s

\* shortestQueue.add(task)
WorkerAdd(s, r, w) ==
    WorkerDequeue([s EXCEPT !.workQueueArr[w].queue = Append(@, r),
                            !.req[r].pc = "workerQueued"], w)

\* _dequeue() of the shared queue: its head item picks a worker and joins
\* that worker's queue
SharedDequeue(s) ==
    LET q == s.sharedWorkQueue
    IN  IF CanDequeue(q)
        THEN WorkerAdd([s EXCEPT !.sharedWorkQueue =
                            [q EXCEPT !.pending = @ + 1, !.queue = Tail(@)]],
                       Head(q.queue), ShortestQueueIdx(s.workQueueArr))
        ELSE s

\* this._sharedWorkQueue.add(...)
SharedAdd(s, r) ==
    SharedDequeue([s EXCEPT !.sharedWorkQueue.queue = Append(@, r),
                            !.req[r].pc = "sharedQueued",
                            !.req[r].waitedShared =
                                ~(s.sharedWorkQueue.pending < s.sharedWorkQueue.max)])

\* activeWorkCount() : this._sharedWorkQueue.getPendingLength()
ActiveWorkCount == sharedWorkQueue.pending
\* pendingWorkCount() : this._sharedWorkQueue.getQueueLength()
PendingWorkCount == Len(sharedWorkQueue.queue)

-----------------------------------------------------------------------------
(* Inputs *)

Opt(prompt, max_tokens, temperature, top_p, stop, stream) ==
    [prompt |-> prompt, max_tokens |-> max_tokens, temperature |-> temperature,
     top_p |-> top_p, stop |-> stop, stream |-> stream,
     hasInitState |-> FALSE, initState |-> <<>>]

StopString(str) == [kind |-> "string", list |-> <<str>>]
StopArray(list) == [kind |-> "array", list |-> list]
\* a stop option that is no string and no list, as in {stop: 5}
StopNumber == [kind |-> "number", list |-> <<>>]

\* the requests of the scheduling specification: one prompt and a
\* generation of two tokens whose top_p keeps a single candidate
SchedOpts ==
    {Opt(<<"a">>, 2, 0, 5, NoStop, FALSE)}

\* the requests of the mixed specification: one that can succeed, one whose
\* stop option makes the task throw a TypeError, and one whose top_p makes the
\* sampler throw
MixOpts ==
    {Opt(<<"a">>, 2, 0, 5, NoStop, FALSE),
     Opt(<<"a">>, 2, 0, 5, StopNumber, FALSE),
     Opt(<<"a">>, 2, 1, -5, NoStop, FALSE)}

\* the requests of the batch specification: prompts of one, two and three
\* tokens, preloads and generations
BatchOpts ==
    {Opt(p, m, 0, 5, NoStop, FALSE) :
        p \in {<<"b">>, <<"b", "b">>, <<"b", "b", "b">>}, m \in {0, 2}}

\* the requests of the ring specification: a preload, and a generation long
\* enough for nxtBufferIndex to come back to slot 0
RingOpts ==
    {Opt(<<"a">>, m, 0, 5, NoStop, FALSE) : m \in {0, MaxRingTokens}}

\* the requests of the sampling specification: temperature 1.0, given or
\* defaulted, and top_p 0.5, 0.6 and 0.9
SampleOpts ==
    {Opt(<<"a">>, 2, temp, tp, NoStop, FALSE) : temp \in {0, 1}, tp \in {5, 6, 9}}

\* the requests of the streaming specification: a streamCallback, every
\* token a candidate, with and without stop strings
StreamOpts ==
    {Opt(<<"a">>, MaxStreamTokens, 0, 0, st, TRUE) :
        st \in {NoStop, StopString(<<"a">>), StopArray(<<<<"b", "a">>, <<"b">>>>)}}

\* the calls that follow the first one in the generation specification
FollowOpts ==
    {Opt(<<"a">>, m, 0, 0, NoStop, TRUE) : m \in {0, 1}}

\* the requests of the cache specification: prompts that share prefixes,
\* preloads and generations
CacheOpts ==
    {Opt(p, m, 0, 5, NoStop, TRUE) :
        p \in {<<"a">>, <<"a", "b">>, <<"a", "b", "b">>, <<"b">>}, m \in {0, 2}}

\* the requests of the prefix specification: a prompt and its extension,
\* preloads and generations
PrefixOpts ==
    {Opt(p, m, 0, 5, NoStop, FALSE) : p \in {<<"a">>, <<"a", "b">>}, m \in {0, 2}}

\* the requests of the lifecycle specification
LifeOpts ==
    {Opt(<<"a">>, m, 0, 5, NoStop, FALSE) : m \in {0, 2}}

\* the requests of the generation specification
GenOpts ==
    {Opt(p, m, temp, tp, st, sm) :
        p \in {<<>>, <<"a">>},
        m \in 0..MaxTokens,
        temp \in {-1, 0},
        tp \in {-5, 0, 5},
        st \in {NoStop, StopString(<<"a">>), StopArray(<<<<"b", "a">>, <<"b">>>>),
                StopNumber},
        sm \in BOOLEAN}

\* requests that pass an initState: the state reached from zero through
\* the token 2
InitStateOpts ==
    {[Opt(<<"a">>, m, 0, 5, NoStop, sm) EXCEPT !.hasInitState = TRUE,
                                                !.initState = <<2>>] :
        m \in {0, 2}, sm \in BOOLEAN}

OptMenu(r) == CASE mode = "sched" -> SchedOpts
                [] mode = "cache" -> CacheOpts
                [] mode = "prefix" -> PrefixOpts
                [] mode \in {"life", "race"} -> LifeOpts
                [] mode = "ring" -> RingOpts
                [] mode = "dispatch" -> SchedOpts
                [] mode = "funnel" -> SchedOpts
                [] mode = "mix" -> MixOpts
                [] mode = "batch" -> BatchOpts
                [] mode = "sample" -> SampleOpts
                [] mode = "stream" -> StreamOpts
                [] r = 1 -> GenOpts \cup InitStateOpts
                [] OTHER -> FollowOpts

Config(concurrent, stateCacheSize, batchSize) ==
    [concurrent |-> concurrent, stateCacheSize |-> stateCacheSize,
     batchSize |-> batchSize]

-----------------------------------------------------------------------------
(* Initial states: a constructed RWKV object, setup() not yet called *)

InitObject ==
    /\ mainCtx = "unset"
    /\ workCtxArray = <<>>
    /\ stateCache = <<>>
    /\ cacheProps = {}
    /\ heap = [r \in Rids |-> [state |-> ZeroState, logits |-> ZeroLogits]]
    /\ sharedWorkQueue = NewQueue(0)
    /\ workQueueArr = <<>>
    /\ life = NewLife
    /\ req = [r \in Rids |-> NewReq]

Init ==
    /\ mode = "gen"
    /\ config \in {Config(1, c, 0) : c \in {0, 2}}
    /\ InitObject

InitCache ==
    /\ mode = "cache"
    /\ config \in {Config(1, c, b) : c \in {0, 1, 2}, b \in {0, 2}}
    /\ InitObject

InitPrefix ==
    /\ mode = "prefix"
    /\ config \in {Config(1, c, 0) : c \in {1, 2}}
    /\ InitObject

InitLife ==
    /\ mode = "life"
    /\ config \in {Config(n, 2, 0) : n \in 1..MaxConcurrent}
    /\ InitObject

InitRing ==
    /\ mode = "ring"
    /\ config \in {Config(n, 2, 0) : n \in 1..MaxConcurrent}
    /\ InitObject

InitDispatch ==
    /\ mode = "dispatch"
    /\ config = Config(MaxDispatchWorkers, 2, 0)
    /\ InitObject

InitFunnel ==
    /\ mode = "funnel"
    /\ config = Config(1, 2, 0)
    /\ InitObject

InitMix ==
    /\ mode = "mix"
    /\ config = Config(1, 2, 0)
    /\ InitObject

InitBatch ==
    /\ mode = "batch"
    /\ config \in {Config(1, 2, b) : b \in {0, 2, 3}}
    /\ InitObject

InitSample ==
    /\ mode = "sample"
    /\ config = Config(1, 2, 0)
    /\ InitObject

InitRace ==
    /\ mode = "race"
    /\ config = Config(MaxConcurrent, 2, 0)
    /\ InitObject

InitStream ==
    /\ mode = "stream"
    /\ config = Config(1, 2, 0)
    /\ InitObject

InitSched ==
    /\ mode = "sched"
    /\ config \in {Config(n, 2, 0) : n \in 1..MaxConcurrent}
    /\ InitObject

-----------------------------------------------------------------------------
(* Actions *)

\* setup() is called: it runs to `await cpp_bind.rwkv_init_from_file(...)`
SetupStart ==
    /\ life.setup = "idle"
    /\ life.free = "idle" /\ life.freeCalls = 0
    /\ life' = [life EXCEPT !.setup = "init"]
    /\ UNCHANGED <<mode, config, mainCtx, workCtxArray, stateCache, cacheProps,
                   heap, sharedWorkQueue, workQueueArr, req>>

\* rwkv_init_from_file returns: this._mainCtx = mainCtx, then setup() awaits
\* the sizes, the offload and the clones
SetupInitReturn ==
    /\ life.setup = "init"
    /\ mainCtx' = "set"
    /\ life' = [life EXCEPT !.setup = "clone"]
    /\ UNCHANGED <<mode, config, workCtxArray, stateCache, cacheProps,
                   heap, sharedWorkQueue, workQueueArr, req>>

\* the last clone is made: setup() stores the handles, the queues and the
\* cache and returns
Setup ==
    /\ life.setup = "clone"
    /\ life' = [life EXCEPT !.setup = "done"]
    /\ workCtxArray' = [i \in 1..config.concurrent |-> i]
    /\ workQueueArr' = [i \in 1..config.concurrent |-> NewQueue(WorkerMaxPending)]
    /\ sharedWorkQueue' = NewQueue(config.concurrent * SharedFactor)
    /\ stateCache' = <<>>
    /\ UNCHANGED <<mode, config, mainCtx, cacheProps, heap, req>>

\* what completion(opt) throws before it queues anything: the error of
\* _checkContext, the error of the prompt check, or the TypeError of
\* this._sharedWorkQueue.add on a queue that setup() has not made yet
ThrownBeforeQueue(o) ==
    IF mainCtx # "set" THEN "context"
    ELSE IF o.prompt = <<>> THEN "prompt"
    ELSE IF life.setup # "done" THEN "type"
    ELSE None

\* completion(opt): _checkContext, the prompt check, then the shared queue.
\* No completion() is called while free() runs
Submit(r, o) ==
    /\ r <= ReqLimit
    /\ req[r].pc = "new"
    /\ \A k \in 1..(r - 1) : req[k].pc # "new"
    /\ life.free = "idle"
    /\ IF ThrownBeforeQueue(o) # None
       THEN Commit([Cur EXCEPT !.req[r] = [@ EXCEPT !.opt = o,
                                                    !.pc = "rejected",
                                                    !.thrown = ThrownBeforeQueue(o),
                                                    !.outcome = "rejected"]])
       ELSE Commit(SharedAdd([Cur EXCEPT !.req[r].opt = o], r))
    /\ UNCHANGED <<mode, config, mainCtx, workCtxArray, life>>

\* a caller makes its next completion() call with some options
Completion(r) == \E o \in OptMenu(r) : Submit(r, o)

\* a rwkv_eval_sequence call of the prompt resolution returns
PromptEvalReturn(r) ==
    /\ req[r].pc = "evalPrompt"
    /\ \E ok \in BOOLEAN : Commit(AfterPromptEval(Cur, r, ok))
    /\ UNCHANGED <<mode, config, mainCtx, workCtxArray, life>>

\* completion() resumes after the prompt resolution
PromptResolved(r) ==
    /\ req[r].pc = "promptAwait"
    /\ \E sample \in SampleLogits(SlotLogits(Cur, r, 0),
                                  TemperatureOf(req[r].opt), TopPOf(req[r].opt)) :
          \E dec \in DecodeOutcomes(TokenOf(sample)) :
             Commit(AfterPrompt(Cur, r, sample, dec))
    /\ UNCHANGED <<mode, config, mainCtx, workCtxArray, life>>

\* a rwkv_eval call of the generation loop returns
GenEvalReturn(r) ==
    /\ req[r].pc = "evalGen"
    /\ \E ok \in BOOLEAN :
          \E sample \in SampleLogits(
                 LogitsOf(EvalState(SlotState(Cur, r, req[r].curBufferIndex),
                                    req[r].curToken)),
                 TemperatureOf(req[r].opt), TopPOf(req[r].opt)) :
             \E dec \in DecodeOutcomes(TokenOf(sample)) :
                Commit(AfterEval(Cur, r, ok, sample, dec))
    /\ UNCHANGED <<mode, config, mainCtx, workCtxArray, life>>

\* a worker queue that reacts only to a task that returned, not to one that
\* threw
WorkerRelease_OnlyOnSuccess(r) ==
    /\ req[r].pc = "taskEnded"
    /\ req[r].outcome = "resolved"
    /\ Commit(WorkerDequeue(
           [Cur EXCEPT !.workQueueArr[req[r].worker].pending = @ - 1,
                       !.req[r].pc = "workerReleased"],
           req[r].worker))
    /\ UNCHANGED <<mode, config, mainCtx, workCtxArray, life>>
\* the worker queue's reaction to the settled task: pendingPromises--, then
\* _dequeue() starts the next task of this worker
WorkerRelease(r) ==
    /\ req[r].pc = "taskEnded"
    /\ Commit(WorkerDequeue(
           [Cur EXCEPT !.workQueueArr[req[r].worker].pending = @ - 1,
                       !.req[r].pc = "workerReleased"],
           req[r].worker))
    /\ UNCHANGED <<mode, config, mainCtx, workCtxArray, life>>

\* a shared queue that gives the slot back only when the task resolved
SharedRelease_OnlyOnSuccess(r) ==
    /\ req[r].pc = "workerReleased"
    /\ Commit(SharedDequeue(
           [Cur EXCEPT !.sharedWorkQueue.pending =
                           IF req[r].outcome = "resolved" THEN @ - 1 ELSE @,
                       !.req[r].pc = req[r].outcome]))
    /\ UNCHANGED <<mode, config, mainCtx, workCtxArray, life>>
\* the shared queue's reaction: pendingPromises--, the caller's promise
\* settles, then _dequeue() admits the next waiting call
SharedRelease(r) ==
    /\ req[r].pc = "workerReleased"
    /\ Commit(SharedDequeue(
           [Cur EXCEPT !.sharedWorkQueue.pending = @ - 1,
                       !.req[r].pc = req[r].outcome]))
    /\ UNCHANGED <<mode, config, mainCtx, workCtxArray, life>>

\* the second block of free(): `if (this._mainCtx)` with rwkv_free of the
\* main handle in flight, or the return of free()
FreeMainBlock(l) ==
    IF mainCtx = "set"
    THEN [l EXCEPT !.free = "main", !.freeIdx = 0]
    ELSE [l EXCEPT !.free = "idle", !.freeIdx = 0, !.freeCalls = @ + 1]

\* a loop over the clones that also passes index 0, the main handle
FreeLoopEnd_Zero == 1 - 1
\* for (let i = this._workCtxArray.length - 1; i >= 1; i--) : 0-based, the
\* last index the loop frees
FreeLoopEnd == 1

\* free() is called and runs to its first await.  It is called when setup()
\* has returned or was never called; only the owner of the race
\* specification calls it while completion() calls are queued or in flight
FreeStart ==
    /\ life.free = "idle"
    /\ life.freeCalls < MaxFreeCalls
    /\ life.setup \in {"idle", "done"}
    /\ mode = "race" \/ \A r \in Rids : req[r].pc \in {"new", "resolved", "rejected"}
    /\ IF workCtxArray # <<>> /\ Len(workCtxArray) - 1 >= FreeLoopEnd
       THEN /\ life' = [life EXCEPT !.free = "clone",
                                     !.freeIdx = Len(workCtxArray) - 1]
            /\ UNCHANGED workCtxArray
       ELSE /\ life' = FreeMainBlock(life)
            /\ workCtxArray' = <<>>
    /\ UNCHANGED <<mode, config, mainCtx, stateCache, cacheProps, heap,
                   sharedWorkQueue, workQueueArr, req>>

\* rwkv_free of the handle at index freeIdx returns: the next one, or
\* this._workCtxArray = null and the block of the main handle
FreeCloneReturn ==
    /\ life.free = "clone"
    /\ LET freed == [life EXCEPT !.freeLog =
                         Append(@, workCtxArray[life.freeIdx + 1])]
       IN  IF life.freeIdx - 1 >= FreeLoopEnd
           THEN /\ life' = [freed EXCEPT !.freeIdx = @ - 1]
                /\ UNCHANGED workCtxArray
           ELSE /\ life' = FreeMainBlock(freed)
                /\ workCtxArray' = <<>>
    /\ UNCHANGED <<mode, config, mainCtx, stateCache, cacheProps, heap,
                   sharedWorkQueue, workQueueArr, req>>

\* rwkv_free of the main handle returns: this._mainCtx = null, and free()
\* returns after `await p`
FreeMainReturn ==
    /\ life.free = "main"
    /\ mainCtx' = "unset"
    /\ life' = [life EXCEPT !.free = "idle",
                            !.freeCalls = @ + 1,
                            !.freeLog = Append(@, 1)]
    /\ UNCHANGED <<mode, config, workCtxArray, stateCache, cacheProps, heap,
                   sharedWorkQueue, workQueueArr, req>>

Next ==
    \/ SetupStart
    \/ SetupInitReturn
    \/ Setup
    \/ \E r \in Rids : Completion(r)
    \/ \E r \in Rids : PromptEvalReturn(r)
    \/ \E r \in Rids : PromptResolved(r)
    \/ \E r \in Rids : GenEvalReturn(r)
    \/ \E r \in Rids : WorkerRelease(r)
    \/ \E r \in Rids : SharedRelease(r)

\* a step of a call that was submitted: an evaluator call returns, or a
\* ready reaction runs
Progress ==
    \E r \in Rids :
        \/ PromptEvalReturn(r)
        \/ PromptResolved(r)
        \/ GenEvalReturn(r)
        \/ WorkerRelease(r)
        \/ SharedRelease(r)

\* the event loop does not stop while a reaction is ready or an evaluator
\* call is in flight
Fairness == WF_vars(Progress)

Spec == Init /\ [][Next]_vars
CacheSpec == InitCache /\ [][Next]_vars
PrefixSpec == InitPrefix /\ [][Next]_vars
SchedSpec == InitSched /\ [][Next]_vars
RingSpec == InitRing /\ [][Next]_vars
DispatchSpec == InitDispatch /\ [][Next]_vars
FunnelSpec == InitFunnel /\ [][Next]_vars
SampleSpec == InitSample /\ [][Next]_vars
MixSpec == InitMix /\ [][Next]_vars
BatchSpec == InitBatch /\ [][Next]_vars
StreamSpec == InitStream /\ [][Next]_vars
\* the steps of an object whose owner also calls free()
LifeNext ==
    \/ Next
    \/ FreeStart
    \/ FreeCloneReturn
    \/ FreeMainReturn

LifeSpec == InitLife /\ [][LifeNext]_vars
RaceSpec == InitRace /\ [][LifeNext]_vars
SchedLiveSpec == InitSched /\ [][Next]_vars /\ Fairness

-----------------------------------------------------------------------------
(* Properties *)

\* the task of call r is between its start and its return or throw
Executing(r) == req[r].pc \in {"evalPrompt", "promptAwait", "evalGen"}
\* call r has an evaluator call in flight on the handle of its worker
InEvaluator(r) == req[r].pc \in {"evalPrompt", "evalGen"}
\* the task of call r has returned or thrown
TaskOver(r) == req[r].pc \in {"taskEnded", "workerReleased", "resolved", "rejected"}
\* call r waits in the shared queue or in a worker queue
Waiting(r) == req[r].pc \in {"sharedQueued", "workerQueued"}

\* C1: on every handle at most one task is executing, so at most one call has
\* an evaluator call in flight on it; at most config.concurrent tasks are
\* executing, and a call that still waits in a queue has issued no evaluator
\* call
C1_OneTaskPerHandle ==
    /\ \A r1 \in Rids : \A r2 \in Rids :
          (Executing(r1) /\ Executing(r2) /\ req[r1].worker = req[r2].worker)
              => r1 = r2
    /\ \A r \in Rids : Executing(r) => req[r].worker \in Workers
    /\ Cardinality({r \in Rids : Executing(r)}) <= config.concurrent
    /\ \A r \in Rids : Waiting(r) => req[r].evals = 0

\* every handle has an evaluator call in flight while one more call waits
C1_Saturated ==
    /\ config.concurrent = 2
    /\ Cardinality({r \in Rids : InEvaluator(r)}) = 2
    /\ \E r \in Rids : Waiting(r)

\* the caller's promise of call r has settled
Settled(r) == req[r].pc \in {"resolved", "rejected"}

\* C4: when every evaluator call returns and the event loop runs every ready
\* reaction, each submitted completion() call eventually resolves or rejects,
\* for one worker and for several
C4_EveryCallSettles ==
    \A r \in Rids : (req[r].pc # "new") ~> Settled(r)

\* with one worker, a call that found the shared queue full and had to wait
\* outside it has resolved
C4_WaitedAndResolved ==
    /\ config.concurrent = 1
    /\ \E r \in Rids : req[r].waitedShared /\ req[r].pc = "resolved"

\* the entries of the cache as a reader sees them, most recently used first
CacheEntries ==
    [i \in 1..Len(stateCache) |->
        [prompt |-> stateCache[i].prompt,
         tokens |-> stateCache[i].tokens,
         state |-> heap[stateCache[i].buf].state,
         logits |-> heap[stateCache[i].buf].logits]]

\* the state reached by evaluating encode(text) token by token from zero
FromZero(text) == EvalSeqState(ZeroState, Encode(text))

\* C2: with the cache enabled, the tokens, state and logits a call without
\* initState resolves for its prompt are those of evaluating encode(prompt)
\* from the zero state
C2_CacheTransparent ==
    \A r \in Rids :
        (req[r].pc = "promptAwait" /\ ~req[r].opt.hasInitState /\ ~StateCacheIsNull)
            => /\ req[r].promptStartState.tokens = Encode(req[r].opt.prompt)
               /\ SlotState(Cur, r, 0) = FromZero(req[r].opt.prompt)
               /\ SlotLogits(Cur, r, 0) = LogitsOf(FromZero(req[r].opt.prompt))

\* C3: with the cache disabled, a call that reached a worker and whose
\* evaluator calls all succeeded returns a result with promptTokensCached = 0,
\* and nothing is cached
C3_DisabledCacheIsNoOp ==
    StateCacheIsNull =>
        /\ stateCache = <<>>
        /\ cacheProps = {}
        /\ \A r \in Rids :
              (TaskOver(r) /\ req[r].worker # 0 /\ ~req[r].evalFailed)
                  => /\ req[r].outcome = "resolved"
                     /\ req[r].result.promptTokensCached = 0

\* call r is the second of two preloads of one prompt made in a row: the
\* call before it, on the only worker, was a preload of the same prompt
\* that returned a result
SecondPreload(r) ==
    /\ r > 1
    /\ config.concurrent = 1
    /\ req[r - 1].outcome = "resolved"
    /\ req[r - 1].opt.max_tokens = 0
    /\ ~TaskOver(r)

\* C7: a call with max_tokens = 0 samples no token, makes no evaluator call
\* of the generation loop and never calls the stream callback, its result has
\* an empty completion and completionTokens = 0; once its prompt is resolved
\* an enabled cache holds the prompt as its most recent entry; and no step of
\* the second of two such calls in a row changes the cache entries
C7_PreloadIsIdempotent ==
    /\ [](\A r \in Rids :
            (req[r].pc # "new" /\ req[r].opt.max_tokens = 0)
                => /\ req[r].outputTokens = <<>>
                   /\ req[r].genEvals = 0
                   /\ req[r].streamCalls = 0
                   /\ req[r].result.completion = <<>>
                   /\ req[r].result.completionTokens = 0)
    /\ [](\A r \in Rids :
            (/\ req[r].pc = "promptAwait"
             /\ req[r].opt.max_tokens = 0
             /\ ~StateCacheIsNull)
                => /\ stateCache # <<>>
                   /\ stateCache[1].prompt = req[r].opt.prompt)
    /\ [][\A r \in Rids :
            (/\ SecondPreload(r)
             /\ req'[r].pc # "new"
             /\ req'[r].opt.max_tokens = 0
             /\ req'[r].opt.prompt = req[r - 1].opt.prompt)
                => CacheEntries' = CacheEntries]_vars

\* two preloads of one prompt in a row have both returned a result
C7_TwoPreloadsDone ==
    \E r \in Rids :
        /\ r > 1
        /\ req[r].outcome = "resolved" /\ req[r - 1].outcome = "resolved"
        /\ req[r].opt.max_tokens = 0 /\ req[r - 1].opt.max_tokens = 0
        /\ req[r].opt.prompt = req[r - 1].opt.prompt
        /\ req[r].opt.stream
        /\ stateCache # <<>>

\* C5: when a stop sequence matched, the completion returned is the output
\* cut just before the first occurrence of that stop string, and holds no
\* occurrence of it
C5_TrimmedAtFirstStop ==
    \A r \in Rids :
        (req[r].outcome = "resolved" /\ Truthy(req[r].stopSeqMatched))
            => /\ req[r].result.completion =
                      Substring0(req[r].outputStr,
                                 IndexOf(req[r].outputStr, req[r].stopSeqMatched.str))
               /\ Occurrences(req[r].result.completion, req[r].stopSeqMatched.str) = {}

\* the stop strings call r was given
StopsOf(r) == {req[r].opt.stop.list[k] : k \in 1..Len(req[r].opt.stop.list)}

\* C6: what the stream callback received, outputStr up to streamPos, ends
\* before every occurrence of every configured stop string in the output
C6_StreamHoldsNoStop ==
    \A r \in Rids :
        req[r].opt.stream
            => /\ req[r].streamed = Slice(req[r].outputStr, 0, req[r].streamPos)
               /\ \A stop \in StopsOf(r) :
                     \A k \in Occurrences(req[r].outputStr, stop) :
                        req[r].streamPos <= k

\* C8: a call with max_tokens = m >= 1 never holds more than m output tokens
\* and makes at most m - 1 evaluator calls in the generation loop; its result
\* counts at most m completion tokens, and exactly m when no stop sequence
\* matched
C8_AtMostMaxTokens ==
    \A r \in Rids :
        (req[r].pc # "new" /\ req[r].opt.max_tokens >= 1)
            => /\ Len(req[r].outputTokens) <= req[r].opt.max_tokens
               /\ req[r].genEvals <= req[r].opt.max_tokens - 1
               /\ req[r].genEvals <= Len(req[r].outputTokens)
               /\ req[r].outcome = "resolved"
                     => /\ req[r].result.completionTokens = Len(req[r].outputTokens)
                        /\ ~Truthy(req[r].stopSeqMatched)
                              => req[r].result.completionTokens = req[r].opt.max_tokens

\* a call with max_tokens = 2 returned two tokens after one evaluator call of
\* the loop
C8_TwoTokensReturned ==
    \E r \in Rids :
        /\ req[r].outcome = "resolved"
        /\ req[r].opt.max_tokens = 2
        /\ req[r].result.completionTokens = 2
        /\ req[r].genEvals = 1

\* C9: every token of a call given a temperature <= 0 is the arg-max of the
\* logits it was sampled from
C9_ArgMaxAtZeroTemperature ==
    \A r \in Rids :
        (req[r].opt.temperature <= 0 /\ req[r].outputTokens # <<>>)
            => req[r].allArgMax

\* the options the validation is to refuse
InvalidOpt(o) == o.prompt = <<>> \/ o.top_p < 0 \/ o.stop.kind = "number"

\* C10: a call with an empty prompt, a negative top_p or a malformed stop
\* list is rejected without joining a queue, without an evaluator call and
\* without a change of the cache
C10_RejectedBeforeWorker ==
    \A r \in Rids :
        (req[r].pc # "new" /\ mainCtx = "set" /\ InvalidOpt(req[r].opt))
            => /\ req[r].pc = "rejected"
               /\ req[r].worker = 0
               /\ req[r].evals = 0
               /\ stateCache = <<>>

\* the text two tokens long that a generation from prompt "a" returns when
\* top_p keeps only the most probable candidate
GreedyFromA ==
    LET t1 == ArgMax(LogitsOf(FromZero(<<"a">>)))
        t2 == ArgMax(LogitsOf(EvalState(FromZero(<<"a">>), t1)))
    IN  Decode(<<t1, t2>>)

\* C11: a call one of whose evaluator calls failed is rejected without a
\* result and makes no further evaluator call; every other call that reached
\* a worker resolves with the completion it returns when nothing fails, and
\* every call that waits or executes goes on to resolve unless an evaluator
\* call of its own fails
C11_FailureStaysLocal ==
    /\ [](\A r \in Rids :
            /\ req[r].evalFailed
                  => /\ TaskOver(r)
                     /\ req[r].outcome = "rejected"
                     /\ req[r].result = NoResult
            /\ (TaskOver(r) /\ req[r].worker # 0 /\ ~req[r].evalFailed)
                  => /\ req[r].outcome = "resolved"
                     /\ req[r].result.completion = GreedyFromA
                     /\ req[r].result.completionTokens = 2)
    /\ [][\A r \in Rids : req[r].evalFailed => req'[r].evals = req[r].evals]_vars
    /\ \A r \in Rids :
          (Waiting(r) \/ Executing(r)) ~> (req[r].pc = "resolved" \/ req[r].evalFailed)

\* on one worker a call failed in the evaluator and a call submitted after it
\* has resolved
C11_FailedThenResolved ==
    /\ config.concurrent = 1
    /\ \E r1 \in Rids : \E r2 \in Rids :
          /\ r1 < r2
          /\ req[r1].evalFailed /\ req[r1].genEvals > 0
          /\ req[r2].pc = "resolved"

\* call r follows a resolved preload of a proper prefix of its prompt, with
\* nothing submitted in between
AfterPreloadOfPrefix(r) ==
    /\ r > 1
    /\ req[r - 1].outcome = "resolved"
    /\ req[r - 1].opt.max_tokens = 0
    /\ StartsWith(req[r].opt.prompt, req[r - 1].opt.prompt)
    /\ Len(req[r - 1].opt.prompt) < Len(req[r].opt.prompt)

NoLongerPrefixBefore(r) ==
    \A k \in 1..(r - 2) :
        ~(/\ StartsWith(req[r].opt.prompt, req[k].opt.prompt)
          /\ Len(req[k].opt.prompt) > Len(req[r - 1].opt.prompt))

C13_UsageCountsPromptTokens ==
    \A r \in Rids :
        req[r].outcome = "resolved"
            => /\ req[r].result.promptTokens = Len(Encode(req[r].opt.prompt))
               /\ req[r].result.totalTokens =
                      req[r].result.promptTokens + req[r].result.completionTokens
               /\ req[r].result.promptTokensCached >= 0
               /\ req[r].result.promptTokensCached <= req[r].result.promptTokens

\* C14: a call given an initState that reached a worker and whose evaluator
\* calls all succeeded returns a result, its prompt state is the one reached
\* from initState through encode(prompt), and it put no entry into the cache
C14_InitStateReturnsResult ==
    \A r \in Rids :
        (/\ req[r].opt.hasInitState
         /\ TaskOver(r) /\ req[r].worker # 0 /\ ~req[r].evalFailed)
            => /\ req[r].outcome = "resolved"
               /\ heap[r].state =
                      EvalSeqState(req[r].opt.initState, Encode(req[r].opt.prompt))
               /\ \A k \in 1..Len(stateCache) : stateCache[k].buf # r
               /\ \A e \in cacheProps : ~StartsWith(e.prompt, req[r].opt.prompt)

\* the position of handle h in the order of release, 0 when not released
FreedAt(h) ==
    IF \E k \in 1..Len(life.freeLog) : life.freeLog[k] = h
    THEN CHOOSE k \in 1..Len(life.freeLog) : life.freeLog[k] = h
    ELSE 0

\* C15: no handle is released twice, the main handle is released after every
\* clone, the clones from the last one down, and when free() has returned
\* after a completed setup() every handle has been released
C15_ClonesThenPrimaryOnce ==
    /\ \A j \in 1..Len(life.freeLog) : \A k \in 1..Len(life.freeLog) :
          life.freeLog[j] = life.freeLog[k] => j = k
    /\ \A h \in 2..config.concurrent :
          /\ FreedAt(1) # 0 => (FreedAt(h) # 0 /\ FreedAt(h) < FreedAt(1))
          /\ (FreedAt(h) # 0 /\ h < config.concurrent)
                => (FreedAt(h + 1) # 0 /\ FreedAt(h + 1) < FreedAt(h))
    /\ (life.setup = "done" /\ life.freeCalls >= 1 /\ life.free = "idle")
          => /\ Len(life.freeLog) = config.concurrent
             /\ mainCtx = "unset"
             /\ workCtxArray = <<>>

\* free() has returned twice on a pool with clones
C15_FreedTwice ==
    /\ config.concurrent = MaxConcurrent
    /\ life.setup = "done"
    /\ life.freeCalls = 2 /\ life.free = "idle"
    /\ Len(life.freeLog) = config.concurrent
    /\ \E r \in Rids : req[r].pc = "resolved"

\* C16: a completion() call made while setup() has not returned, or after
\* free() has returned, throws the error of _checkContext, joins no queue and
\* makes no evaluator call
C16_NoContextNoWork ==
    [][\A r \in Rids :
          (/\ req[r].pc = "new" /\ req'[r].pc # "new"
           /\ (life.setup # "done" \/ life.freeCalls > 0))
              => /\ req'[r].pc = "rejected"
                 /\ req'[r].thrown = "context"
                 /\ req'[r].evals = 0
                 /\ sharedWorkQueue' = sharedWorkQueue
                 /\ workQueueArr' = workQueueArr]_vars

\* the task of call r has started and the queues have not yet reacted to
\* its end
HoldsWorker(r) == Executing(r) \/ req[r].pc \in {"taskEnded", "workerReleased"}

\* C17: activeWorkCount() is the number of workers that execute a call, a
\* call counting until the queues have reacted to its end, and is at most
\* the pool size; pendingWorkCount() is the number of submitted calls whose
\* task has not started
C17_WorkCounts ==
    life.setup = "done"
        => /\ ActiveWorkCount = Cardinality({r \in Rids : HoldsWorker(r)})
           /\ ActiveWorkCount <= config.concurrent
           /\ PendingWorkCount = Cardinality({r \in Rids : Waiting(r)})

\* the state entries the _stateCache object holds: the entries of the LRU
\* and the properties finalize has assigned on it
CacheHeld == Len(stateCache) + Cardinality(cacheProps)

\* C18: with the cache enabled, the cache never holds more state entries
\* than its configured capacity, whatever completions have run
C18_CacheWithinCapacity ==
    (life.setup = "done" /\ ~StateCacheIsNull) => CacheHeld <= CacheMax

\* the token sequence t is the head of the token sequence full
IsHeadOf(t, full) == Len(t) <= Len(full) /\ SubSeq(full, 1, Len(t)) = t

\* the tokens of the cache entry the prompt resolution of call r started from
CandidateTokens(r) ==
    SubSeq(req[r].promptStartState.tokens, 1,
           req[r].promptStartState.cachedTokenSize)

\* C19: a prompt resolution never starts from a cache entry whose token
\* sequence is not the head of the fresh tokenization of the query prompt
C19_MismatchIsRejected ==
    \A r \in Rids :
        (req[r].promptStartState.meta
            /\ req[r].promptStartState.cachedTokenSize > 0)
                => IsHeadOf(CandidateTokens(r), Encode(req[r].opt.prompt))

\* C20: an entry of the cache that a step neither replaces nor evicts keeps
\* its token list, its state vector and its logits vector over that step,
\* whichever operation takes the step
C20_EntriesAreImmutable ==
    [][\A i \in 1..Len(stateCache) : \A j \in 1..Len(stateCache') :
          (/\ stateCache[i].prompt = stateCache'[j].prompt
           /\ stateCache[i].buf = stateCache'[j].buf)
              => CacheEntries'[j] = CacheEntries[i]]_vars

\* the buffer pairs held in the ring of call r once its generation loop
\* runs: slot 0 is the pair of promptStartState, the other slots are
\* allocated by the call
RingBuffers(r) ==
    {<<"heap", req[r].promptStartState.buf>>}
        \cup {<<"ring", r, k>> : k \in 1..(BUFFER_SIZE - 1)}

\* C21: two calls that both have an evaluator call of their generation
\* loop in flight hold no buffer pair in common, slot 0 included
C21_RingsAreDisjoint ==
    \A r1 \in Rids : \A r2 \in Rids :
        (r1 # r2 /\ req[r1].pc = "evalGen" /\ req[r2].pc = "evalGen")
            => RingBuffers(r1) \cap RingBuffers(r2) = {}

\* the worker whose queue call r has joined: the one that runs it, or the
\* one in whose queue it waits
AssignedWorker(rq, wq, r) ==
    IF rq[r].worker # 0 THEN rq[r].worker
    ELSE CHOOSE w \in 1..Len(wq) : \E k \in 1..Len(wq[w].queue) : wq[w].queue[k] = r

\* the lowest index among the workers of minimal pending + queued length
MinLoadIdx(wq) ==
    CHOOSE w \in 1..Len(wq) :
        \A u \in 1..Len(wq) :
            /\ QueueLoad(wq[w]) <= QueueLoad(wq[u])
            /\ QueueLoad(wq[u]) = QueueLoad(wq[w]) => w <= u

\* call r is not yet assigned to a worker queue
Unassigned(rq, r) == rq[r].pc \in {"new", "sharedQueued"}

\* C22: a step that admits a call assigns it to the worker whose pending +
\* queued length is minimal before the step, the lowest index among equals
C22_ShortestQueueLowestIndex ==
    [][\A r \in Rids :
          (/\ Unassigned(req, r)
           /\ ~Unassigned(req', r)
           /\ req'[r].pc # "rejected")
              => AssignedWorker(req', workQueueArr', r) = MinLoadIdx(workQueueArr)]_vars

\* call r holds one of the shared queue's slots: it is assigned to a worker
\* queue, waiting or executing there, or its task is over and the shared
\* queue has not reacted yet
Occupying(rq, r) ==
    rq[r].pc \in {"workerQueued", "evalPrompt", "promptAwait", "evalGen",
                  "taskEnded", "workerReleased"}
OccupyingCount(rq) == Cardinality({r \in Rids : Occupying(rq, r)})

\* C23: at most 2 x config.concurrent calls are assigned to worker queues; a
\* call made while that many hold a slot stays in the shared queue; a call
\* leaves the shared queue only in a step in which the shared queue reacts
\* to a finished call, and only when no earlier call still waits there
C23_Backpressure ==
    [][/\ OccupyingCount(req') <= 2 * config.concurrent
       /\ \A r \in Rids :
             (/\ req[r].pc = "new"
              /\ req'[r].pc \notin {"new", "rejected"}
              /\ OccupyingCount(req) >= 2 * config.concurrent)
                 => req'[r].pc = "sharedQueued"
       /\ \A r \in Rids :
             (req[r].pc = "sharedQueued" /\ req'[r].pc # "sharedQueued")
                 => /\ \E r2 \in Rids :
                          /\ req[r2].pc = "workerReleased"
                          /\ req'[r2].pc \in {"resolved", "rejected"}
                    /\ \A k \in 1..(r - 1) : req[k].pc # "sharedQueued"]_vars

\* C23 witness: with one worker, a call that waited in the shared queue is
\* now assigned to the worker while a later call still waits in the shared
\* queue, and two calls hold the two slots
C23_AdmittedInOrder ==
    /\ config.concurrent = 1
    /\ OccupyingCount(req) = 2
    /\ \E r \in Rids : \E r2 \in Rids :
          /\ r < r2
          /\ req[r].waitedShared
          /\ req[r].pc \in {"workerQueued", "evalPrompt", "promptAwait", "evalGen"}
          /\ req[r2].pc = "sharedQueued"

\* the queue q2 is the queue q after at most one add() at its tail and at
\* most one start of its head item
FifoStep(q, q2) ==
    \E x \in Rids \cup {0} :
        LET added == IF x = 0 THEN q ELSE Append(q, x)
        IN  q2 = added \/ (added # <<>> /\ q2 = Tail(added))

\* C24: every worker queue changes only by an add at its tail and a start of
\* its head; a call that starts on a worker is the head of that worker's
\* queue unless the queue is empty, and every other call that has started
\* on that worker has returned or thrown
C24_WorkerQueueIsFifo ==
    [][/\ \A w \in 1..Len(workQueueArr) :
             Len(workQueueArr') = Len(workQueueArr)
                 => FifoStep(workQueueArr[w].queue, workQueueArr'[w].queue)
       /\ \A r \in Rids :
             (req[r].worker = 0 /\ req'[r].worker # 0)
                 => /\ workQueueArr[req'[r].worker].queue # <<>>
                          => Head(workQueueArr[req'[r].worker].queue) = r
                    /\ \A r2 \in Rids \ {r} :
                          req[r2].worker = req'[r].worker => TaskOver(r2)]_vars

\* C24 witness: on one worker a call has finished, the call assigned after
\* it is executing and a third call waits in that worker's queue
C24_ThreeInTurn ==
    \E r1 \in Rids : \E r2 \in Rids : \E r3 \in Rids :
        /\ r1 < r2 /\ r2 < r3
        /\ req[r1].worker # 0
        /\ req[r2].worker = req[r1].worker
        /\ TaskOver(r1)
        /\ Executing(r2)
        /\ req[r3].pc = "workerQueued"
        /\ workQueueArr[req[r1].worker].queue = <<r3>>

\* the output text of call r before its most recently sampled token
OutputBeforeLast(r) ==
    Decode(SubSeq(req[r].outputTokens, 1, Len(req[r].outputTokens) - 1))

\* C25: no token is sampled once the output holds a configured stop string,
\* so the output before the last sampled token holds none; and a call that
\* resolved with a stop string in its output has recorded a configured stop
\* string as matched
C25_StopIsTerminal ==
    \A r \in Rids : \A stop \in StopsOf(r) :
        /\ Len(req[r].outputTokens) >= 2
               => Occurrences(OutputBeforeLast(r), stop) = {}
        /\ (req[r].outcome = "resolved" /\ Occurrences(req[r].outputStr, stop) # {})
               => /\ Truthy(req[r].stopSeqMatched)
                  /\ req[r].stopSeqMatched.str \in StopsOf(r)

\* call r resolved after generating, and its finalize wrote an entry with
\* the key and the token list of e
FinalizeWrote(r, e) ==
    /\ req[r].outcome = "resolved"
    /\ Len(req[r].outputTokens) >= 1
    /\ e.prompt = req[r].promptStartState.prompt \o OutputBeforeLast(r)
    /\ e.tokens = req[r].promptStartState.tokens
                      \o SubSeq(req[r].outputTokens, 1, Len(req[r].outputTokens) - 1)

\* C26: the state of an entry written at prompt resolution has consumed at
\* least 2 tokens fewer than the prompt tokens of the call that wrote it,
\* and the state of an entry written at finalize at least 2 tokens fewer
\* than the prompt and output tokens of the call that wrote it
C26_CachedStateIsBehind ==
    /\ \A i \in 1..Len(stateCache) :
          Len(CacheEntries[i].state) + 2 <= Len(req[stateCache[i].buf].fullTokenArr)
    /\ \A e \in cacheProps : \A r \in Rids :
          FinalizeWrote(r, e)
              => Len(e.state) + 2 <= Len(req[r].promptStartState.tokens)
                                        + Len(req[r].outputTokens)

\* call r resolved after generating at least one token, with the cache
\* enabled and without initState
Promoted(r) ==
    /\ req[r].outcome = "resolved"
    /\ Len(req[r].outputTokens) >= 1
    /\ ~StateCacheIsNull
    /\ ~req[r].opt.hasInitState
\* cacheStr of the finalize of call r: promptStartState.prompt +
\* cacheState.outputStr
PromotedKey(r) == req[r].promptStartState.prompt \o OutputBeforeLast(r)

\* C27: after a call that generated tokens has resolved and before any later
\* call, the cache's lookup keys hold prompt + snapshot output; and the next
\* call, made on a cache of capacity 2 or more with a prompt that starts
\* with that key, resumes from at least the tokens of that entry
C27_FinalizeEntryIsFound ==
    \A r \in Rids :
        Promoted(r)
            => /\ (\A k \in Rids : k > r => req[k].pc = "new")
                      => LruHas(stateCache, PromotedKey(r))
               /\ (/\ r + 1 \in Rids
                   /\ CacheMax >= 2
                   /\ req[r + 1].outcome = "resolved"
                   /\ StartsWith(req[r + 1].opt.prompt, PromotedKey(r)))
                      => req[r + 1].result.promptTokensCached
                            >= Len(req[r].promptStartState.tokens)
                                  + Len(req[r].outputTokens) - 1

\* the cached prompt texts that are a literal prefix of the text input
CachedPrefixes(cache, input) ==
    {i \in 1..Len(cache) : StartsWith(input, cache[i].prompt)}
\* the position in the cache of the longest of them
LongestPrefixIdx(cache, input) ==
    CHOOSE i \in CachedPrefixes(cache, input) :
        \A j \in CachedPrefixes(cache, input) :
            Len(cache[j].prompt) <= Len(cache[i].prompt)

\* the step starts the prompt resolution of call r through the cache
StartsLookup(r) ==
    /\ req[r].worker = 0
    /\ req'[r].worker # 0
    /\ req'[r].pc \in {"evalPrompt", "promptAwait"}
    /\ ~req'[r].opt.hasInitState
    /\ ~StateCacheIsNull

C29_EntriesMatchTheirPrompt ==
    \A i \in 1..Len(stateCache) :
        /\ CacheEntries[i].tokens = Encode(CacheEntries[i].prompt)
        /\ CacheEntries[i].state = FromZero(CacheEntries[i].prompt)
        /\ CacheEntries[i].logits = LogitsOf(FromZero(CacheEntries[i].prompt))

\* the candidates S sorted by descending probability, equal probabilities
\* in index order
RECURSIVE SortedCandidates(_, _)
SortedCandidates(logits, S) ==
    IF S = {} THEN <<>>
    ELSE LET t == CHOOSE x \in S :
                      \A y \in S : \/ Prob(logits, x) > Prob(logits, y)
                                    \/ (Prob(logits, x) = Prob(logits, y) /\ x <= y)
         IN  <<t>> \o SortedCandidates(logits, S \ {t})

\* the shortest prefix of the sorted candidates whose cumulative probability
\* reaches top_p (all of them when none does)
Nucleus(logits, top_p) ==
    LET sorted == SortedCandidates(logits, Vocab)
        reach == {n \in 1..Len(sorted) :
                     SumProb(logits, {sorted[i] : i \in 1..n}) >= top_p}
        n == IF reach = {} THEN Len(sorted) ELSE SetMin(reach)
    IN  {sorted[i] : i \in 1..n}

\* the logits the token sampled in this step is sampled from: those of the
\* prompt for the first token, those the evaluator has just written after
\* that
SampledFrom(r) ==
    IF req[r].pc = "promptAwait" THEN SlotLogits(Cur, r, 0)
    ELSE LogitsOf(EvalState(SlotState(Cur, r, req[r].curBufferIndex),
                            req[r].curToken))

\* C30: with temperature > 0 and 0 <= top_p < 1.0, every token a step
\* samples is an index of the logits and belongs to the shortest prefix of
\* the candidates, sorted by descending probability, whose cumulative
\* probability reaches top_p
C30_SampleWithinNucleus ==
    [][\A r \in Rids :
          (/\ Len(req'[r].outputTokens) = Len(req[r].outputTokens) + 1
           /\ TemperatureOf(req[r].opt) > 0
           /\ TopPOf(req[r].opt) >= 0
           /\ TopPOf(req[r].opt) < 10)
              => /\ req'[r].curToken \in Vocab
                 /\ req'[r].curToken \in Nucleus(SampledFrom(r), TopPOf(req[r].opt))]_vars

\* C30 witness: a call with top_p 0.6 has sampled a token that is not the
\* most probable one and goes on generating
C30_SecondCandidateSampled ==
    \E r \in Rids :
        /\ req[r].opt.top_p = 6
        /\ req[r].pc = "evalGen"
        /\ req[r].curToken \in Vocab
        /\ req[r].curToken # ArgMax(SlotLogits(Cur, r, req[r].curBufferIndex))

\* C31: the step in which the task of a call starts and looks its prompt up
\* in the cache leaves the set of cached entries, keys and contents, as it
\* was, and the task goes on to the evaluation of the remaining input or to
\* the exact hit: the lookup throws nothing
C31_LookupLeavesCache ==
    [][\A r \in Rids :
          (/\ req[r].worker = 0
           /\ req'[r].worker # 0
           /\ ~req'[r].opt.hasInitState
           /\ ~StateCacheIsNull)
              => /\ {CacheEntries'[i] : i \in 1..Len(stateCache')}
                        = {CacheEntries[i] : i \in 1..Len(stateCache)}
                 /\ Len(stateCache') = Len(stateCache)
                 /\ req'[r].pc \in {"evalPrompt", "promptAwait"}]_vars

\* C31 witness: the cache holds "a" and "ab", and a call with the prompt "a"
\* has just hit the entry "a", which another call wrote
C31_HitAmongTwo ==
    /\ Len(stateCache) = 2
    /\ stateCache[1].prompt = <<"a">>
    /\ stateCache[2].prompt = <<"a", "b">>
    /\ \E r \in Rids :
          /\ req[r].pc = "promptAwait"
          /\ req[r].opt.prompt = <<"a">>
          /\ req[r].promptStartState.buf = stateCache[1].buf
          /\ req[r].promptStartState.buf # r

\* C32: a step that issues an evaluator call for call r issues it on a handle
\* whose rwkv_free has not returned, however free() interleaves with the
\* calls
C32_NoEvalOnFreedHandle ==
    [][\A r \in Rids :
          (req'[r].evals = req[r].evals + 1 /\ req'[r].worker # 0)
              => FreedAt(req'[r].worker) = 0]_vars

\* C33: for a call with a streamCallback the stream cursor never decreases,
\* what was delivered is extended and never repeated, it is the output up to
\* the cursor, and when the call has resolved it is the completion text
\* returned
C33_StreamIsThePrefix ==
    [][\A r \in Rids :
          req'[r].opt.stream
              => /\ req'[r].streamPos >= req[r].streamPos
                 /\ StartsWith(req'[r].streamed, req[r].streamed)
                 /\ req'[r].streamed = Slice(req'[r].outputStr, 0, req'[r].streamPos)
                 /\ req'[r].outcome = "resolved"
                       => req'[r].streamed = req'[r].result.completion]_vars

\* C33 witness: a streamed call has resolved on a stop match after three or
\* more tokens, and its non-empty completion was delivered in two or more
\* chunks
C33_StreamedInChunks ==
    \E r \in Rids :
        /\ req[r].opt.stream
        /\ req[r].pc = "resolved"
        /\ Truthy(req[r].stopSeqMatched)
        /\ Len(req[r].outputTokens) >= 3
        /\ req[r].streamCalls >= 2
        /\ req[r].result.completion # <<>>
        /\ req[r].streamed = req[r].result.completion

\* C34: every step a call takes during its prompt resolution, from the start
\* of its task on, that does not complete the resolution leaves the keys of
\* the cache and the contents of every entry as they were; so a call whose
\* evaluator call fails there has inserted and replaced nothing
C34_FailedResolutionWritesNothing ==
    [][\A r \in Rids :
          (/\ ~req'[r].opt.hasInitState
           /\ req'[r] # req[r]
           /\ \/ req[r].worker = 0 /\ req'[r].worker # 0
              \/ req[r].pc = "evalPrompt"
           /\ req'[r].pc # "promptAwait")
              => /\ {CacheEntries'[i] : i \in 1..Len(stateCache')}
                        = {CacheEntries[i] : i \in 1..Len(stateCache)}
                 /\ cacheProps' = cacheProps]_vars

\* C34 witness: a call that resumed from a cached prefix has failed in an
\* evaluator call of its prompt resolution, and the cache holds no entry for
\* its prompt
C34_FailedAfterHit ==
    \E r \in Rids :
        /\ req[r].evalFailed
        /\ req[r].genEvals = 0
        /\ req[r].cachedTokenSize > 0
        /\ req[r].outcome = "rejected"
        /\ Len(stateCache) >= 1
        /\ ~LruHas(stateCache, req[r].opt.prompt)

\* C35: a task that threw gives back its worker slot and its shared slot, and
\* each release starts the call waiting for that slot; once every call that
\* was made has settled, the shared queue and every worker queue have nothing
\* pending and nothing queued
C35_FailuresReleaseTheirSlots ==
    /\ []((\A r \in Rids : req[r].pc \in {"new", "resolved", "rejected"})
            => /\ sharedWorkQueue.pending = 0
               /\ sharedWorkQueue.queue = <<>>
               /\ \A w \in 1..Len(workQueueArr) :
                     /\ workQueueArr[w].pending = 0
                     /\ workQueueArr[w].queue = <<>>)
    /\ [][\A r \in Rids :
             /\ (/\ req[r].pc = "taskEnded" /\ req[r].outcome = "rejected"
                 /\ req'[r].pc # "taskEnded")
                    => LET w == req[r].worker
                           q == workQueueArr[w]
                       IN  /\ req'[r].pc = "workerReleased"
                           /\ IF q.queue # <<>>
                              THEN /\ req'[Head(q.queue)].worker = w
                                   /\ workQueueArr'[w].queue = Tail(q.queue)
                                   /\ workQueueArr'[w].pending = q.pending
                              ELSE workQueueArr'[w].pending = q.pending - 1
             /\ (/\ req[r].pc = "workerReleased" /\ req[r].outcome = "rejected"
                 /\ req'[r].pc # "workerReleased")
                    => LET q == sharedWorkQueue
                       IN  /\ req'[r].pc = "rejected"
                           /\ IF q.queue # <<>>
                              THEN /\ req'[Head(q.queue)].pc # "sharedQueued"
                                   /\ sharedWorkQueue'.queue = Tail(q.queue)
                                   /\ sharedWorkQueue'.pending = q.pending
                              ELSE sharedWorkQueue'.pending = q.pending - 1]_vars

\* C35 witness: three calls have settled, one rejected by the TypeError of
\* its stop option, one by the sampler, one by a failed evaluator call, and
\* the last of them had to wait outside the shared queue
C35_ThreeKindsOfFailure ==
    /\ \A r \in 1..3 : req[r].pc = "rejected" /\ req[r].worker # 0
    /\ \E r \in 1..3 : req[r].opt.stop.kind = "number"
    /\ \E r \in 1..3 : req[r].opt.top_p < 0 /\ ~req[r].evalFailed
    /\ \E r \in 1..3 : req[r].evalFailed
    /\ req[3].waitedShared
    /\ sharedWorkQueue.pending = 0

\* C36: while the calls made to the idle pool are no more than its workers
\* and none of their tasks has ended, they execute on distinct workers and
\* none waits; and whenever no worker has more than one task and the shared
\* queue has room, a call that is made starts at once on a worker that had
\* none
C36_IdlePoolSpreads ==
    /\ []((/\ life.setup = "done"
            /\ Cardinality({r \in Rids : req[r].pc # "new"}) <= config.concurrent
            /\ \A r \in Rids : ~TaskOver(r))
              => /\ \A r \in Rids : req[r].pc # "new" => Executing(r)
                 /\ \A r1 \in Rids : \A r2 \in Rids :
                       (Executing(r1) /\ Executing(r2) /\ r1 # r2)
                           => req[r1].worker # req[r2].worker)
    /\ [][\A r \in Rids :
             (/\ req[r].pc = "new" /\ req'[r].pc # "new"
              /\ life.setup = "done" /\ life.freeCalls = 0
              /\ sharedWorkQueue.queue = <<>>
              /\ sharedWorkQueue.pending < sharedWorkQueue.max
              /\ \A w \in 1..Len(workQueueArr) : QueueLoad(workQueueArr[w]) <= 1
              /\ \E w \in 1..Len(workQueueArr) : QueueLoad(workQueueArr[w]) = 0)
                 => /\ Executing(r)'
                    /\ QueueLoad(workQueueArr[req'[r].worker]) = 0]_vars

\* C36 witness: three calls made to an idle pool of three workers execute on
\* the three workers
C36_ThreeOnThree ==
    /\ config.concurrent = 3
    /\ \A r \in 1..3 : Executing(r)
    /\ {req[r].worker : r \in 1..3} = 1..3

\* C37: a task that starts while its prompt is a key of the cache comes out
\* of its prompt resolution in that same step, with no evaluator call issued,
\* with cachedTokenSize equal to the number of its prompt tokens and with the
\* keys and the entries of the cache as they were; and a call that resolved
\* without an evaluator call in its prompt resolution reports
\* promptTokensCached = promptTokens
C37_ExactHitEvaluatesNothing ==
    /\ [][\A r \in Rids :
             (/\ req[r].worker = 0 /\ req'[r].worker # 0
              /\ ~req'[r].opt.hasInitState
              /\ ~StateCacheIsNull
              /\ workCtxArray # <<>>
              /\ LruHas(stateCache, req'[r].opt.prompt))
                 => /\ req'[r].pc = "promptAwait"
                    /\ req'[r].evals = 0
                    /\ req'[r].promptStartState.meta
                    /\ req'[r].promptStartState.cachedTokenSize
                          = Len(req'[r].promptStartState.tokens)
                    /\ {CacheEntries'[i] : i \in 1..Len(stateCache')}
                          = {CacheEntries[i] : i \in 1..Len(stateCache)}]_vars
    /\ [](\A r \in Rids :
            (/\ req[r].pc = "resolved"
             /\ ~req[r].opt.hasInitState
             /\ req[r].evals = req[r].genEvals)
                => /\ req[r].result.promptTokensCached = req[r].result.promptTokens
                   /\ req[r].result.promptTokens > 0)

\* C37 witness: a call whose prompt was a key of the cache has resolved
\* without an evaluator call in its prompt resolution, after generating
C37_ResolvedFromExactHit ==
    \E r \in Rids :
        /\ req[r].pc = "resolved"
        /\ req[r].evals = req[r].genEvals
        /\ req[r].genEvals > 0
        /\ req[r].result.promptTokensCached = Len(Encode(req[r].opt.prompt))
        /\ LruHas(stateCache, req[r].opt.prompt)

\* C38: with n tokens remaining after the cached prefix and batch size b
\* (1 when none is configured),
\* the k-th evaluator call of a prompt resolution is issued when (k - 1) * b
\* of them have been consumed; each call that returns appends its chunk to
\* the state it started from, so that the state followed by the tokens still
\* to feed never changes; and the resolution ends after ceil(n / b) calls
\* with the state and logits of feeding the n tokens one by one (from the
\* zero state: those of the whole token list)
C38_BatchesFeedEveryTokenOnce ==
    /\ [](\A r \in Rids :
            LET n == Len(req[r].fullTokenArr) - req[r].cachedTokenSize
                b == IF config.batchSize >= 1 THEN config.batchSize ELSE 1
                pss == req[r].promptStartState
            IN  /\ req[r].pc = "evalPrompt"
                      => /\ Len(req[r].remTokens) = n - (req[r].evals - 1) * b
                         /\ Len(req[r].remTokens) >= 1
                         /\ req[r].cachedTokenSize = 0
                               => heap[r].state \o req[r].remTokens
                                      = req[r].fullTokenArr
                /\ (req[r].pc = "promptAwait" /\ req[r].evals > 0)
                      => /\ req[r].evals = (n + b - 1) \div b
                         /\ pss.buf = r
                         /\ heap[r].logits = LogitsOf(heap[r].state)
                         /\ req[r].cachedTokenSize = 0
                               => heap[r].state
                                      = EvalSeqState(ZeroState, req[r].fullTokenArr))
    /\ [][\A r \in Rids :
             (/\ req[r].pc = "evalPrompt"
              /\ req'[r].pc \in {"evalPrompt", "promptAwait"})
                 => /\ heap'[r].state \o req'[r].remTokens
                          = heap[r].state \o req[r].remTokens
                    /\ req'[r].pc = "promptAwait" => req'[r].remTokens = <<>>]_vars

\* C38 witness: three tokens were fed in two chunks of batch size 2
C38_ThreeTokensInTwoChunks ==
    /\ config.batchSize = 2
    /\ \E r \in Rids :
          /\ req[r].pc = "promptAwait"
          /\ req[r].cachedTokenSize = 0
          /\ Len(req[r].fullTokenArr) = 3
          /\ req[r].evals = 2
          /\ heap[r].state = <<2, 2, 2>>

\* C39: while the generation loop of a call runs, every slot of its ring
\* written so far holds the state of consuming the prompt tokens and then
\* the outputTokens recorded in the slot, the recorded outputStr is the
\* decoding of those tokens, and the current slot records the running
\* output without its last token
C39_SlotsHoldTheirTokens ==
    \A r \in Rids :
        req[r].pc = "evalGen"
            => /\ \A k \in 0..(BUFFER_SIZE - 1) :
                     k <= req[r].i - 1
                         => /\ SlotState(Cur, r, k)
                                  = EvalSeqState(ZeroState,
                                        req[r].promptStartState.tokens
                                            \o req[r].stateBuffer[k].outputTokens)
                            /\ req[r].stateBuffer[k].outputStr
                                  = Decode(req[r].stateBuffer[k].outputTokens)
               /\ req[r].stateBuffer[req[r].curBufferIndex].outputTokens
                     = SubSeq(req[r].outputTokens, 1, Len(req[r].outputTokens) - 1)

\* C40: while an evaluator call of the generation loop is in flight, both
\* ring indices are within 0..BUFFER_SIZE-1, the next index is the current
\* one plus one modulo BUFFER_SIZE, and the two differ
C40_RingIndicesAdvance ==
    \A r \in Rids :
        req[r].pc = "evalGen"
            => /\ req[r].curBufferIndex \in 0..(BUFFER_SIZE - 1)
               /\ req[r].nxtBufferIndex \in 0..(BUFFER_SIZE - 1)
               /\ req[r].nxtBufferIndex = (req[r].curBufferIndex + 1) % BUFFER_SIZE
               /\ req[r].curBufferIndex # req[r].nxtBufferIndex
               /\ req[r].curBufferIndex = (req[r].i - 1) % BUFFER_SIZE

\* C40 witness: the next index has wrapped from the last slot to slot 0
\* and an evaluator call writing slot 0 is in flight
C40_WrappedToZero ==
    \E r \in Rids :
        /\ req[r].pc = "evalGen"
        /\ req[r].curBufferIndex = BUFFER_SIZE - 1
        /\ req[r].nxtBufferIndex = 0

====
